---- MODULE Spec2Model ----
(***************************************************************************)
(* Model of src/utils/retry.js: retryWithBackoff (sequence variant) and    *)
(* retryableFuncWithBackoff (single-call variant).                         *)
(*                                                                         *)
(* One wrapper is created by one call of retryWithBackoff or               *)
(* retryableFuncWithBackoff; its closure holds retryCount and the debounce *)
(* timer.  The wrapper is then invoked (subscribed / called) up to MaxInv  *)
(* times; every invocation runs attempts of the wrapped operation, whose   *)
(* failures go through the catch callback of the wrapper.                  *)
(***************************************************************************)
EXTENDS Integers, Sequences, FiniteSets, TLC

MaxTotalRetry == 2
MaxInv == 2
MaxAttempts == 3

NoTimer == 0

Invocations == 1..MaxInv
Variants == {"obs", "func"}
Errors == {"transient", "fatal"}
ResetDelays == {0, 1}

VARIABLES
  variant,        \* which of the two exported functions built the wrapper
  options,        \* the options object given to it
  retryCount,     \* closure variable retryCount
  debounceTimer,  \* debounce's timer: NoTimer, or the invocation that armed it
  st,             \* per invocation: position of the subscription
  backoffTimer,   \* per invocation: NoTimer, or the attempt number of the pending timer(fuzzedDelay)
  attempts,       \* per invocation: attempts started so far
  retries,        \* per invocation: retries granted so far
  onRetryLog,     \* per invocation: the retryCount values given to onRetry
  surfaced,       \* per invocation: the error delivered to the caller
  producing,      \* per invocation: the running attempt has delivered a value to the caller
  lastError,      \* per invocation: the error the catch callback last got, until the next attempt
  cancelledIn,    \* per invocation: the position it was unsubscribed in
  sinceReset,     \* the debounced reset ran and no failure was handled since
  pair            \* one run of each variant, given the same options and attempt outcomes

vars == <<pair, variant, options, retryCount, debounceTimer, st, backoffTimer,
          attempts, retries, onRetryLog, surfaced, producing, lastError,
          cancelledIn, sinceReset>>

invVars == <<st, backoffTimer, attempts, retries, onRetryLog, surfaced,
             producing, lastError, cancelledIn>>

NoError == [kind |-> "none", err |-> "none", count |-> 0]

Raw(error) == [kind |-> "raw", err |-> error, count |-> 0]

\* options.errorSelector(error, retryCount): keeps both arguments visible
errorSelector(error, count) == [kind |-> "selected", err |-> error, count |-> count]

\* options.shouldRetry(error): the caller's predicate
shouldRetry(error) == error # "fatal"

Options ==
  [totalRetry : 0..MaxTotalRetry, resetDelay : ResetDelays,
   shouldRetry : BOOLEAN, errorSelector : BOOLEAN, onRetry : BOOLEAN]

RECURSIVE SumUpTo(_, _)
SumUpTo(f, n) == IF n = 0 THEN 0 ELSE f[n] + SumUpTo(f, n - 1)

\* attempts started so far, all invocations together
Started == SumUpTo(attempts, MaxInv)

Terminal(s) == s \in {"Success", "Error", "Cancelled"}

\* the function returned by debounce(fn, delay), called by invocation i:
\* a pending timeout is cleared and a new one is set
debounce(timer, i) == i

\* Touch that does not look at resetDelay
Touch_Always(opts, timer, i) == debounce(timer, i)

\* debounceRetryCount && debounceRetryCount()
Touch(opts, timer, i) ==
  IF opts.resetDelay > 0 THEN debounce(timer, i) ELSE timer

\* ObsCatch giving up one failure late: retryCount++ > totalRetry
ObsCatch_OffByOne(opts, count, error) ==
  LET wantRetry == ~opts.shouldRetry \/ shouldRetry(error)
      giveUp == ~wantRetry \/ count > opts.totalRetry
      after == IF wantRetry THEN count + 1 ELSE count
  IN  [giveUp |-> giveUp,
       retryCount |-> after,
       thrown |-> IF ~giveUp THEN NoError
                  ELSE IF opts.errorSelector THEN errorSelector(error, after)
                  ELSE Raw(error),
       onRetry |-> IF ~giveUp /\ opts.onRetry THEN <<after>> ELSE <<>>,
       delayArg |-> IF giveUp THEN NoTimer ELSE after]

\* ObsCatch counting before it asks shouldRetry:
\* retryCount++ >= totalRetry || !wantRetry
ObsCatch_CountFirst(opts, count, error) ==
  LET wantRetry == ~opts.shouldRetry \/ shouldRetry(error)
      giveUp == count >= opts.totalRetry \/ ~wantRetry
      after == count + 1
  IN  [giveUp |-> giveUp,
       retryCount |-> after,
       thrown |-> IF ~giveUp THEN NoError
                  ELSE IF opts.errorSelector THEN errorSelector(error, after)
                  ELSE Raw(error),
       onRetry |-> IF ~giveUp /\ opts.onRetry THEN <<after>> ELSE <<>>,
       delayArg |-> IF giveUp THEN NoTimer ELSE after]

\* ObsCatch that schedules the retry without calling onRetry
ObsCatch_SilentRetry(opts, count, error) ==
  LET wantRetry == ~opts.shouldRetry \/ shouldRetry(error)
      giveUp == ~wantRetry \/ count >= opts.totalRetry
      after == IF wantRetry THEN count + 1 ELSE count
  IN  [giveUp |-> giveUp,
       retryCount |-> after,
       thrown |-> IF ~giveUp THEN NoError
                  ELSE IF opts.errorSelector THEN errorSelector(error, after)
                  ELSE Raw(error),
       onRetry |-> <<>>,
       delayArg |-> IF giveUp THEN NoTimer ELSE after]

\* ObsCatch that returns without throwing when it gives up
ObsCatch_Swallow(opts, count, error) ==
  LET wantRetry == ~opts.shouldRetry \/ shouldRetry(error)
      giveUp == ~wantRetry \/ count >= opts.totalRetry
      after == IF wantRetry THEN count + 1 ELSE count
  IN  [giveUp |-> giveUp,
       retryCount |-> after,
       thrown |-> NoError,
       onRetry |-> IF ~giveUp /\ opts.onRetry THEN <<after>> ELSE <<>>,
       delayArg |-> IF giveUp THEN NoTimer ELSE after]

\* ObsCatch computing the delay from the counter before the increment
ObsCatch_DelayBeforeIncrement(opts, count, error) ==
  LET wantRetry == ~opts.shouldRetry \/ shouldRetry(error)
      giveUp == ~wantRetry \/ count >= opts.totalRetry
      after == IF wantRetry THEN count + 1 ELSE count
  IN  [giveUp |-> giveUp,
       retryCount |-> after,
       thrown |-> IF ~giveUp THEN NoError
                  ELSE IF opts.errorSelector THEN errorSelector(error, after)
                  ELSE Raw(error),
       onRetry |-> IF ~giveUp /\ opts.onRetry THEN <<after>> ELSE <<>>,
       delayArg |-> IF giveUp THEN NoTimer ELSE count]

\* ObsCatch whose thrown error goes through the callback a second time
ObsCatch_Reentrant(opts, count, error) ==
  LET wantRetry == ~opts.shouldRetry \/ shouldRetry(error)
      giveUp == ~wantRetry \/ count >= opts.totalRetry
      after == IF wantRetry THEN count + 1 ELSE count
  IN  [giveUp |-> giveUp,
       retryCount |-> IF giveUp /\ wantRetry THEN after + 1 ELSE after,
       thrown |-> IF ~giveUp THEN NoError
                  ELSE IF opts.errorSelector
                    THEN errorSelector(error, IF wantRetry THEN after + 1 ELSE after)
                  ELSE Raw(error),
       onRetry |-> IF ~giveUp /\ opts.onRetry THEN <<after>> ELSE <<>>,
       delayArg |-> IF giveUp THEN NoTimer ELSE after]

\* ObsCatch calling onRetry with the counter before the increment
ObsCatch_OnRetryBeforeIncrement(opts, count, error) ==
  LET wantRetry == ~opts.shouldRetry \/ shouldRetry(error)
      giveUp == ~wantRetry \/ count >= opts.totalRetry
      after == IF wantRetry THEN count + 1 ELSE count
  IN  [giveUp |-> giveUp,
       retryCount |-> after,
       thrown |-> IF ~giveUp THEN NoError
                  ELSE IF opts.errorSelector THEN errorSelector(error, after)
                  ELSE Raw(error),
       onRetry |-> IF ~giveUp /\ opts.onRetry THEN <<count>> ELSE <<>>,
       delayArg |-> IF giveUp THEN NoTimer ELSE after]

\* callback given to obs.catch
ObsCatch(opts, count, error) ==
  LET wantRetry == ~opts.shouldRetry \/ shouldRetry(error)
      giveUp == ~wantRetry \/ count >= opts.totalRetry
      after == IF wantRetry THEN count + 1 ELSE count
  IN  [giveUp |-> giveUp,
       retryCount |-> after,
       thrown |-> IF ~giveUp THEN NoError
                  ELSE IF opts.errorSelector THEN errorSelector(error, after)
                  ELSE Raw(error),
       onRetry |-> IF ~giveUp /\ opts.onRetry THEN <<after>> ELSE <<>>,
       delayArg |-> IF giveUp THEN NoTimer ELSE after]

\* callback given to fn(...args).catch
FuncCatch(opts, count, error) ==
  LET wantRetry == ~opts.shouldRetry \/ shouldRetry(error)
      giveUp == ~wantRetry \/ count >= opts.totalRetry
      after == IF wantRetry THEN count + 1 ELSE count
  IN  [giveUp |-> giveUp,
       retryCount |-> after,
       thrown |-> IF ~giveUp THEN NoError
                  ELSE IF opts.errorSelector THEN errorSelector(error, after)
                  ELSE Raw(error),
       onRetry |-> IF ~giveUp /\ opts.onRetry THEN <<after>> ELSE <<>>,
       delayArg |-> IF giveUp THEN NoTimer ELSE after]

\* no side-by-side run is made
PairOff == [on |-> FALSE]

Init ==
  /\ variant \in Variants
  /\ options \in Options
  /\ retryCount = 0
  /\ debounceTimer = NoTimer
  /\ st = [i \in Invocations |-> "Idle"]
  /\ backoffTimer = [i \in Invocations |-> NoTimer]
  /\ attempts = [i \in Invocations |-> 0]
  /\ retries = [i \in Invocations |-> 0]
  /\ onRetryLog = [i \in Invocations |-> <<>>]
  /\ surfaced = [i \in Invocations |-> NoError]
  /\ producing = [i \in Invocations |-> FALSE]
  /\ lastError = [i \in Invocations |-> "none"]
  /\ cancelledIn = [i \in Invocations |-> "none"]
  /\ sinceReset = FALSE
  /\ pair = PairOff

\* the caller subscribes to the returned observable / calls the returned
\* function and subscribes to its result: the first attempt starts.
\* Invocations are numbered in the order they are made.
Invoke(i) ==
  /\ st[i] = "Idle"
  /\ \A j \in Invocations : j < i => st[j] # "Idle"
  /\ Started < MaxAttempts
  /\ st' = [st EXCEPT ![i] = "Active"]
  /\ attempts' = [attempts EXCEPT ![i] = 1]
  /\ UNCHANGED <<pair, variant, options, retryCount, debounceTimer, backoffTimer,
                 retries, onRetryLog, surfaced, producing, lastError,
                 cancelledIn, sinceReset>>

\* the running attempt produces a value: catch forwards it unchanged
\* (a further value of the same attempt changes nothing)
Emit(i) ==
  /\ st[i] = "Active"
  /\ producing' = [producing EXCEPT ![i] = TRUE]
  /\ UNCHANGED <<pair, variant, options, retryCount, debounceTimer, st,
                 backoffTimer, attempts, retries, onRetryLog, surfaced,
                 lastError, cancelledIn, sinceReset>>

\* the running attempt completes
Complete(i) ==
  /\ st[i] = "Active"
  /\ st' = [st EXCEPT ![i] = "Success"]
  /\ producing' = [producing EXCEPT ![i] = FALSE]
  /\ UNCHANGED <<pair, variant, options, retryCount, debounceTimer, backoffTimer,
                 attempts, retries, onRetryLog, surfaced, lastError,
                 cancelledIn, sinceReset>>

\* what a run of the catch callback, with result r, does to invocation i
Caught(i, error, r) ==
  /\ retryCount' = r.retryCount
  /\ st' = [st EXCEPT ![i] = IF r.giveUp THEN "Error" ELSE "Waiting"]
  /\ backoffTimer' = [backoffTimer EXCEPT ![i] = r.delayArg]
  /\ retries' = [retries EXCEPT ![i] = IF r.giveUp THEN @ ELSE @ + 1]
  /\ onRetryLog' = [onRetryLog EXCEPT ![i] = @ \o r.onRetry]
  /\ surfaced' = [surfaced EXCEPT ![i] = r.thrown]
  /\ lastError' = [lastError EXCEPT ![i] = error]
  /\ producing' = [producing EXCEPT ![i] = FALSE]
  /\ sinceReset' = FALSE
  /\ UNCHANGED <<pair, variant, options, debounceTimer, attempts, cancelledIn>>

\* an attempt of the sequence variant fails with error
ObsFail(i, error) ==
  /\ variant = "obs"
  /\ st[i] = "Active"
  /\ Caught(i, error, ObsCatch(options, retryCount, error))

\* an attempt of the single-call variant fails with error
FuncFail(i, error) ==
  /\ variant = "func"
  /\ st[i] = "Active"
  /\ Caught(i, error, FuncCatch(options, retryCount, error))

\* ObsTimerFire that leaves the fired timer recorded as pending
ObsTimerFire_KeepTimer(i) ==
  /\ variant = "obs"
  /\ backoffTimer[i] # NoTimer
  /\ Started < MaxAttempts
  /\ debounceTimer' = Touch(options, debounceTimer, i)
  /\ st' = [st EXCEPT ![i] = "Active"]
  /\ attempts' = [attempts EXCEPT ![i] = @ + 1]
  /\ lastError' = [lastError EXCEPT ![i] = "none"]
  /\ UNCHANGED <<pair, variant, options, retryCount, backoffTimer, retries,
                 onRetryLog, surfaced, producing, cancelledIn, sinceReset>>

\* timer(fuzzedDelay) fires, sequence variant: touch, then resubscribe to source
ObsTimerFire(i) ==
  /\ variant = "obs"
  /\ backoffTimer[i] # NoTimer
  /\ Started < MaxAttempts
  /\ debounceTimer' = Touch(options, debounceTimer, i)
  /\ backoffTimer' = [backoffTimer EXCEPT ![i] = NoTimer]
  /\ st' = [st EXCEPT ![i] = "Active"]
  /\ attempts' = [attempts EXCEPT ![i] = @ + 1]
  /\ lastError' = [lastError EXCEPT ![i] = "none"]
  /\ UNCHANGED <<pair, variant, options, retryCount, retries, onRetryLog, surfaced,
                 producing, cancelledIn, sinceReset>>

\* timer(fuzzedDelay) fires, single-call variant: touch, then doRetry(...args)
FuncTimerFire(i) ==
  /\ variant = "func"
  /\ backoffTimer[i] # NoTimer
  /\ Started < MaxAttempts
  /\ debounceTimer' = Touch(options, debounceTimer, i)
  /\ backoffTimer' = [backoffTimer EXCEPT ![i] = NoTimer]
  /\ st' = [st EXCEPT ![i] = "Active"]
  /\ attempts' = [attempts EXCEPT ![i] = @ + 1]
  /\ lastError' = [lastError EXCEPT ![i] = "none"]
  /\ UNCHANGED <<pair, variant, options, retryCount, retries, onRetryLog, surfaced,
                 producing, cancelledIn, sinceReset>>

\* ResetFire whose callback leaves the counter as it is
ResetFire_KeepsCount ==
  /\ debounceTimer # NoTimer
  /\ retryCount' = retryCount
  /\ debounceTimer' = NoTimer
  /\ sinceReset' = TRUE
  /\ UNCHANGED <<pair, variant, options, invVars>>

\* the timeout set by debounce fires: () => retryCount = 0
ResetFire ==
  /\ debounceTimer # NoTimer
  /\ retryCount' = 0
  /\ debounceTimer' = NoTimer
  /\ sinceReset' = TRUE
  /\ UNCHANGED <<pair, variant, options, invVars>>

\* Unsubscribe leaving the pending timer(fuzzedDelay) scheduled
Unsubscribe_KeepTimer(i) ==
  /\ st[i] \in {"Active", "Waiting"}
  /\ st' = [st EXCEPT ![i] = "Cancelled"]
  /\ cancelledIn' = [cancelledIn EXCEPT ![i] = st[i]]
  /\ producing' = [producing EXCEPT ![i] = FALSE]
  /\ UNCHANGED <<pair, variant, options, retryCount, debounceTimer, backoffTimer,
                 attempts, retries, onRetryLog, surfaced, lastError,
                 sinceReset>>

\* the caller unsubscribes: the running attempt or the pending
\* timer(fuzzedDelay) is torn down; nothing in the wrapper clears the
\* timeout of debounce
Unsubscribe(i) ==
  /\ st[i] \in {"Active", "Waiting"}
  /\ st' = [st EXCEPT ![i] = "Cancelled"]
  /\ backoffTimer' = [backoffTimer EXCEPT ![i] = NoTimer]
  /\ cancelledIn' = [cancelledIn EXCEPT ![i] = st[i]]
  /\ producing' = [producing EXCEPT ![i] = FALSE]
  /\ UNCHANGED <<pair, variant, options, retryCount, debounceTimer, attempts,
                 retries, onRetryLog, surfaced, lastError, sinceReset>>

Next ==
  \/ \E i \in Invocations : Invoke(i)
  \/ \E i \in Invocations : Emit(i)
  \/ \E i \in Invocations : Complete(i)
  \/ \E i \in Invocations, error \in Errors : ObsFail(i, error)
  \/ \E i \in Invocations, error \in Errors : FuncFail(i, error)
  \/ \E i \in Invocations : ObsTimerFire(i)
  \/ \E i \in Invocations : FuncTimerFire(i)
  \/ ResetFire
  \/ \E i \in Invocations : Unsubscribe(i)

Spec == Init /\ [][Next]_vars

-----------------------------------------------------------------------------
(* The two variants side by side: one invocation of a wrapper built by     *)
(* retryWithBackoff and one of a wrapper built by retryableFuncWithBackoff, *)
(* with the same options; every attempt outcome is given to both.          *)

\* a wrapper just built and not yet invoked
NewRun ==
  [retryCount |-> 0, debounceTimer |-> NoTimer, st |-> "Idle",
   backoffTimer |-> NoTimer, attempts |-> 0, onRetryLog |-> <<>>,
   delays |-> <<>>, touches |-> 0, surfaced |-> NoError]

PairStart(opts) == [on |-> TRUE, opts |-> opts, obs |-> NewRun, func |-> NewRun]

\* what the callback's result c does to the run r
RunCaught(r, c) ==
  [r EXCEPT !.retryCount = c.retryCount,
            !.st = IF c.giveUp THEN "Error" ELSE "Waiting",
            !.backoffTimer = c.delayArg,
            !.onRetryLog = @ \o c.onRetry,
            !.delays = IF c.giveUp THEN @ ELSE Append(@, c.delayArg),
            !.surfaced = c.thrown]

\* subscription to the observable returned by retryWithBackoff
ObsRunStart(r) == [r EXCEPT !.st = "Active", !.attempts = 1]

\* call of doRetry(...args) and subscription to its result
FuncRunStart(r) == [r EXCEPT !.st = "Active", !.attempts = 1]

\* obs fails: the callback given to obs.catch runs
ObsRunFail(opts, r, error) == RunCaught(r, ObsCatch(opts, r.retryCount, error))

\* fn(...args) fails: the callback given to fn(...args).catch runs
FuncRunFail(opts, r, error) == RunCaught(r, FuncCatch(opts, r.retryCount, error))

\* mergeMap callback of the sequence variant: touch, return source
ObsRunTimer(opts, r) ==
  [r EXCEPT !.debounceTimer = Touch(opts, @, 1),
            !.touches = IF Touch(opts, NoTimer, 1) # NoTimer THEN @ + 1 ELSE @,
            !.backoffTimer = NoTimer,
            !.st = "Active",
            !.attempts = @ + 1]

\* FuncRunTimer that calls doRetry without touching the debounce
FuncRunTimer_NoTouch(opts, r) ==
  [r EXCEPT !.backoffTimer = NoTimer,
            !.st = "Active",
            !.attempts = @ + 1]

\* mergeMap callback of the single-call variant: touch, return doRetry(...args)
FuncRunTimer(opts, r) ==
  [r EXCEPT !.debounceTimer = Touch(opts, @, 1),
            !.touches = IF Touch(opts, NoTimer, 1) # NoTimer THEN @ + 1 ELSE @,
            !.backoffTimer = NoTimer,
            !.st = "Active",
            !.attempts = @ + 1]

\* the timeout set by debounce fires: () => retryCount = 0
RunReset(r) == [r EXCEPT !.retryCount = 0, !.debounceTimer = NoTimer]

\* the attempt completes
RunComplete(r) == [r EXCEPT !.st = "Success"]

wrapperVars == <<variant, options, retryCount, debounceTimer, st,
                 backoffTimer, attempts, retries, onRetryLog, surfaced,
                 producing, lastError, cancelledIn, sinceReset>>

InitPair ==
  /\ pair \in {PairStart(opts) : opts \in Options}
  /\ variant = "obs"
  /\ options = pair.opts
  /\ retryCount = 0
  /\ debounceTimer = NoTimer
  /\ st = [i \in Invocations |-> "Idle"]
  /\ backoffTimer = [i \in Invocations |-> NoTimer]
  /\ attempts = [i \in Invocations |-> 0]
  /\ retries = [i \in Invocations |-> 0]
  /\ onRetryLog = [i \in Invocations |-> <<>>]
  /\ surfaced = [i \in Invocations |-> NoError]
  /\ producing = [i \in Invocations |-> FALSE]
  /\ lastError = [i \in Invocations |-> "none"]
  /\ cancelledIn = [i \in Invocations |-> "none"]
  /\ sinceReset = FALSE

\* both wrappers are invoked
PairInvoke ==
  /\ pair.obs.st = "Idle" \/ pair.func.st = "Idle"
  /\ pair' = [pair EXCEPT
       !.obs = IF @.st = "Idle" THEN ObsRunStart(@) ELSE @,
       !.func = IF @.st = "Idle" THEN FuncRunStart(@) ELSE @]
  /\ UNCHANGED wrapperVars

\* the running attempt of each fails with the same error
PairFail(error) ==
  /\ pair.obs.st = "Active" \/ pair.func.st = "Active"
  /\ pair' = [pair EXCEPT
       !.obs = IF @.st = "Active" THEN ObsRunFail(pair.opts, @, error) ELSE @,
       !.func = IF @.st = "Active" THEN FuncRunFail(pair.opts, @, error) ELSE @]
  /\ UNCHANGED wrapperVars

\* the running attempt of each completes
PairComplete ==
  /\ pair.obs.st = "Active" \/ pair.func.st = "Active"
  /\ pair' = [pair EXCEPT
       !.obs = IF @.st = "Active" THEN RunComplete(@) ELSE @,
       !.func = IF @.st = "Active" THEN RunComplete(@) ELSE @]
  /\ UNCHANGED wrapperVars

\* the pending timer(fuzzedDelay) of each fires
PairTimerFire ==
  /\ pair.obs.backoffTimer # NoTimer \/ pair.func.backoffTimer # NoTimer
  /\ pair.obs.attempts < MaxAttempts /\ pair.func.attempts < MaxAttempts
  /\ pair' = [pair EXCEPT
       !.obs = IF @.backoffTimer # NoTimer THEN ObsRunTimer(pair.opts, @) ELSE @,
       !.func = IF @.backoffTimer # NoTimer THEN FuncRunTimer(pair.opts, @) ELSE @]
  /\ UNCHANGED wrapperVars

\* the pending timeout of each debounce fires
PairResetFire ==
  /\ pair.obs.debounceTimer # NoTimer \/ pair.func.debounceTimer # NoTimer
  /\ pair' = [pair EXCEPT
       !.obs = IF @.debounceTimer # NoTimer THEN RunReset(@) ELSE @,
       !.func = IF @.debounceTimer # NoTimer THEN RunReset(@) ELSE @]
  /\ UNCHANGED wrapperVars

NextPair ==
  \/ PairInvoke
  \/ \E error \in Errors : PairFail(error)
  \/ PairComplete
  \/ PairTimerFire
  \/ PairResetFire

SpecPair == InitPair /\ [][NextPair]_vars

TypeOK ==
  /\ variant \in Variants
  /\ options \in Options
  /\ retryCount \in Nat
  /\ debounceTimer \in {NoTimer} \cup Invocations
  /\ \A i \in Invocations :
       /\ st[i] \in {"Idle", "Active", "Waiting", "Success", "Error", "Cancelled"}
       /\ backoffTimer[i] \in Nat
       /\ attempts[i] \in 0..MaxAttempts
       /\ producing[i] \in BOOLEAN
       /\ producing[i] => st[i] = "Active"

-----------------------------------------------------------------------------
(* Vocabulary of the properties *)

\* no other invocation of the wrapper was ever made
Alone(i) == \A j \in Invocations \ {i} : st[j] = "Idle"

ResetDisabled == options.resetDelay <= 0

\* the error passes options.shouldRetry (absent: every error does)
Accepted(error) == ~options.shouldRetry \/ shouldRetry(error)

\* invocation i gave up although its error was accepted: its budget ran out
Exhausted(i) == st[i] = "Error" /\ Accepted(lastError[i])

\* this step is the catch callback running for invocation i
FailStep(i) == st[i] = "Active" /\ st'[i] \in {"Waiting", "Error"}

\* what the caller gets on give-up when the counter reads count
GiveUpError(error, count) ==
  IF options.errorSelector THEN errorSelector(error, count) ELSE Raw(error)

-----------------------------------------------------------------------------
\* C1: a single invocation of a fresh wrapper, reset disabled, never starts
\* more than totalRetry + 1 attempts, and when it gives up on an accepted
\* error it has started exactly totalRetry + 1 attempts (totalRetry retries)
\* and the error is surfaced.
C1_ExactlyNRetries ==
  \A i \in Invocations :
    (Alone(i) /\ ResetDisabled) =>
      /\ attempts[i] <= options.totalRetry + 1
      /\ retries[i] <= options.totalRetry
      /\ Exhausted(i) =>
           /\ attempts[i] = options.totalRetry + 1
           /\ retries[i] = options.totalRetry
           /\ surfaced[i].err = lastError[i]

C1_Witness ==
  \E i \in Invocations :
    /\ Alone(i) /\ ResetDisabled /\ Exhausted(i)
    /\ options.totalRetry = 2 /\ attempts[i] = 3

\* C2: the retries granted to an invocation do not depend on the other
\* invocations: with reset disabled, an invocation that runs out of budget
\* was granted the full totalRetry retries.
C2_OwnRetryState ==
  ResetDisabled =>
    \A i \in Invocations : Exhausted(i) => retries[i] = options.totalRetry

\* C3: totalRetry bounds the retries of an invocation in every
\* configuration and under every order of timer fires.
C3_TotalRetryBounds ==
  \A i \in Invocations : retries[i] <= options.totalRetry

\* C4: within one invocation the k-th call of onRetry receives k.
C4_OnRetryCounts ==
  \A i \in Invocations :
    \A k \in 1..Len(onRetryLog[i]) : onRetryLog[i][k] = k

\* C5: a give-up leaves the counter alone and surfaces
\* errorSelector(error, counter at decision time), or the error unchanged.
C5_GiveUpError ==
  [][\A i \in Invocations :
       (st[i] = "Active" /\ st'[i] = "Error") =>
         /\ retryCount' = retryCount
         /\ surfaced'[i] = GiveUpError(lastError'[i], retryCount)]_vars

\* C6: a failure that shouldRetry rejects gives up in the same step, at any
\* counter value: no backoff timer, no onRetry, no retry, the counter
\* unchanged, and the error (or errorSelector's output) surfaced.
C6_RejectedGivesUp ==
  [][\A i \in Invocations :
       (FailStep(i) /\ ~Accepted(lastError'[i])) =>
         /\ st'[i] = "Error"
         /\ backoffTimer'[i] = NoTimer
         /\ onRetryLog' = onRetryLog
         /\ retries' = retries
         /\ attempts' = attempts
         /\ retryCount' = retryCount
         /\ surfaced'[i] = GiveUpError(lastError'[i], retryCount)]_vars

C6_Witness ==
  \E i \in Invocations :
    /\ st[i] = "Error" /\ ~Accepted(lastError[i])
    /\ attempts[i] = 1 /\ retries[i] = 0 /\ retryCount = 0
    /\ surfaced[i] = errorSelector("fatal", 0)

\* C7: when the reset timer has fired the counter is 0, and the next
\* failure (if accepted) is handled as a first failure: it is retried,
\* onRetry receives 1, the backoff uses attempt number 1.
C7_ResetRestoresBudget ==
  [][/\ sinceReset' => (retryCount' = 0 /\ options.totalRetry >= 1)
     /\ \A i \in Invocations :
          (sinceReset /\ FailStep(i) /\ Accepted(lastError'[i])) =>
            /\ st'[i] = "Waiting"
            /\ retryCount' = 1
            /\ backoffTimer'[i] = 1
            /\ retries'[i] = retries[i] + 1
            /\ options.onRetry => onRetryLog'[i] = Append(onRetryLog[i], 1)]_vars

C7_Witness ==
  \E i \in Invocations :
    /\ st[i] = "Waiting" /\ retries[i] = 3 /\ backoffTimer[i] = 1
    /\ options.totalRetry = 2 /\ onRetryLog[i] = <<1, 2, 1>>

\* C8: unsubscribing while waiting for the backoff cancels the timer; the
\* invocation then stays cancelled: no attempt starts, no value and no error
\* reaches the caller.
C8_CancelWhileWaiting ==
  [][\A i \in Invocations :
       /\ (st[i] = "Waiting" /\ st'[i] = "Cancelled") =>
            (backoffTimer'[i] = NoTimer /\ surfaced'[i] = NoError)
       /\ cancelledIn[i] = "Waiting" =>
            /\ st'[i] = "Cancelled"
            /\ backoffTimer'[i] = NoTimer
            /\ attempts'[i] = attempts[i]
            /\ ~producing'[i]
            /\ surfaced'[i] = NoError]_vars

C8_Witness ==
  \E i \in Invocations :
    /\ cancelledIn[i] = "Waiting" /\ st[i] = "Cancelled"
    /\ retries[i] >= 1 /\ backoffTimer[i] = NoTimer

\* C9: a terminated invocation has no pending timer: neither its backoff
\* timer nor a reset timer it armed.
C9_NoTimerAfterTermination ==
  \A i \in Invocations :
    Terminal(st[i]) => (backoffTimer[i] = NoTimer /\ debounceTimer # i)

\* C10: at most one attempt governed by the counter is in flight.
C10_OneAttemptInFlight ==
  Cardinality({i \in Invocations : st[i] = "Active"}) <= 1

-----------------------------------------------------------------------------
\* this step is the catch callback receiving an error of invocation i
FailedStep(i) == st[i] = "Active" /\ lastError'[i] # "none"

\* the values 1, 2, ..., n
UpTo(n) == [k \in 1..n |-> k]

\* C11: a single invocation of a fresh wrapper, reset disabled: when it
\* succeeds after k failures, k <= totalRetry retries were made, onRetry was
\* called k times (with 1..k) and no error is surfaced; when it runs out of
\* budget the error is surfaced after totalRetry + 1 attempts and no timer is
\* scheduled.
C11_FailThenSucceed ==
  \A i \in Invocations :
    (Alone(i) /\ ResetDisabled) =>
      /\ st[i] = "Success" =>
           /\ retries[i] = attempts[i] - 1
           /\ retries[i] <= options.totalRetry
           /\ onRetryLog[i] = (IF options.onRetry THEN UpTo(retries[i]) ELSE <<>>)
           /\ surfaced[i] = NoError
           /\ backoffTimer[i] = NoTimer
      /\ Exhausted(i) =>
           /\ attempts[i] = options.totalRetry + 1
           /\ onRetryLog[i] = (IF options.onRetry THEN UpTo(options.totalRetry) ELSE <<>>)
           /\ surfaced[i] # NoError
           /\ backoffTimer[i] = NoTimer

C11_Witness ==
  \E i \in Invocations :
    /\ Alone(i) /\ ResetDisabled /\ st[i] = "Success"
    /\ options.totalRetry = 2 /\ retries[i] = 2 /\ onRetryLog[i] = <<1, 2>>

\* C13: a failure either schedules a backoff timer and surfaces nothing, or
\* surfaces its error and terminates the invocation without a timer.
C13_NoErrorSwallowed ==
  [][\A i \in Invocations :
       FailedStep(i) =>
         \/ /\ st'[i] = "Waiting"
            /\ backoffTimer'[i] # NoTimer
            /\ surfaced'[i] = NoError
         \/ /\ st'[i] = "Error"
            /\ backoffTimer'[i] = NoTimer
            /\ surfaced'[i] # NoError
            /\ surfaced'[i].err = lastError'[i]]_vars

C13_Witness ==
  \E i, j \in Invocations :
    /\ st[i] = "Waiting" /\ backoffTimer[i] # NoTimer /\ surfaced[i] = NoError
    /\ st[j] = "Error" /\ surfaced[j].err = "transient"

\* C14: the backoff timer firing starts an attempt that has produced nothing
\* yet, so it does not arm the reset timer.
C14_TouchOnlyWhenReestablished ==
  [][\A i \in Invocations :
       (backoffTimer[i] # NoTimer /\ st'[i] = "Active") =>
         debounceTimer' = debounceTimer]_vars

\* C15: with resetDelay <= 0 no reset timer is ever pending, the reset never
\* runs, and the counter only stays or grows by 1.
C15_ResetDisabled ==
  [][ResetDisabled =>
       /\ debounceTimer' = NoTimer
       /\ ~sinceReset'
       /\ retryCount' \in {retryCount, retryCount + 1}]_vars

C15_Witness ==
  /\ ResetDisabled /\ retryCount >= 2
  /\ \E i \in Invocations : attempts[i] >= 2 /\ st[i] = "Active"

\* C16: a granted retry uses the counter before the decision plus 1 as the
\* attempt number of its backoff, leaves that number in the counter and
\* gives the same number to onRetry; the counter changes in no other way
\* than by a handled failure or the reset.
C16_BackoffAttemptNumber ==
  [][/\ \A i \in Invocations :
          (FailedStep(i) /\ st'[i] = "Waiting") =>
            /\ backoffTimer'[i] = retryCount + 1
            /\ retryCount' = retryCount + 1
            /\ options.onRetry =>
                 onRetryLog'[i] = Append(onRetryLog[i], backoffTimer'[i])
     /\ retryCount' # retryCount =>
          \/ sinceReset' /\ retryCount' = 0
          \/ \E i \in Invocations : FailedStep(i)]_vars

C16_Witness ==
  \E i \in Invocations :
    st[i] = "Waiting" /\ backoffTimer[i] = 2 /\ onRetryLog[i] = <<1, 2>>

\* C17: a backoff timer of an invocation is pending exactly while the
\* invocation is waiting: never while an attempt runs, never after it ended.
C17_TimerOnlyWhileWaiting ==
  \A i \in Invocations : (backoffTimer[i] # NoTimer) <=> (st[i] = "Waiting")

C17_Witness ==
  \E i, j \in Invocations :
    /\ st[i] = "Waiting" /\ backoffTimer[i] # NoTimer
    /\ st[j] = "Active" /\ attempts[j] >= 2

\* C18: the callback runs once per failure (the counter and the onRetry log
\* move by at most one, errorSelector gets the attempt's own error and the
\* counter as the callback left it), and an invocation that gave up stays as
\* it is.
C18_GiveUpTerminal ==
  [][\A i \in Invocations :
       /\ FailedStep(i) =>
            /\ retryCount' \in {retryCount, retryCount + 1}
            /\ Len(onRetryLog'[i]) \in {Len(onRetryLog[i]), Len(onRetryLog[i]) + 1}
            /\ st'[i] = "Error" =>
                 /\ surfaced'[i].err = lastError'[i]
                 /\ surfaced'[i].kind = "selected" => surfaced'[i].count = retryCount'
       /\ st[i] = "Error" =>
            /\ st'[i] = "Error"
            /\ surfaced'[i] = surfaced[i]
            /\ attempts'[i] = attempts[i]
            /\ retries'[i] = retries[i]
            /\ onRetryLog'[i] = onRetryLog[i]
            /\ backoffTimer'[i] = NoTimer]_vars

C18_Witness ==
  \E i \in Invocations :
    /\ variant = "obs" /\ st[i] = "Error" /\ attempts[i] = 3
    /\ surfaced[i].kind = "selected"

\* C19: every value given to onRetry lies in 1..totalRetry.
C19_OnRetryRange ==
  \A i \in Invocations :
    \A k \in 1..Len(onRetryLog[i]) : onRetryLog[i][k] \in 1..options.totalRetry

C19_Witness ==
  \E i \in Invocations :
    /\ options.resetDelay > 0 /\ Len(onRetryLog[i]) = 3
    /\ onRetryLog[i][2] = options.totalRetry

\* C12: given the same options and the same attempt outcomes, the two
\* variants have made the same onRetry calls, used the same backoff attempt
\* numbers, touched the reset timer as often, hold the same counter and have
\* reached the same outcome.
C12_SamePolicy ==
  /\ pair.obs.onRetryLog = pair.func.onRetryLog
  /\ pair.obs.delays = pair.func.delays
  /\ pair.obs.touches = pair.func.touches
  /\ pair.obs.retryCount = pair.func.retryCount
  /\ pair.obs.st = pair.func.st
  /\ pair.obs.surfaced = pair.func.surfaced
  /\ pair.obs = pair.func

C12_Witness ==
  /\ pair.obs.st = "Error" /\ pair.func.st = "Error"
  /\ pair.obs.attempts = 3 /\ pair.func.attempts = 3
  /\ pair.obs.onRetryLog = <<1, 2>> /\ pair.func.touches = 2
  /\ pair.func.surfaced = errorSelector("transient", 3)
====
